---- MODULE Spec2Model ----
(***************************************************************************)
(* Quantitative scoring and grade aggregation of the patent evaluation     *)
(* system: the three category agents (agents/tech_agent.py,                *)
(* agents/rights_agent.py, agents/market_agent.py), the grade table        *)
(* (config/weights.py) and the evaluate_patent pipeline (main.py).         *)
(*                                                                         *)
(* Fixed-point conventions (Python floats are modelled exactly):           *)
(*   component scores        whole points            (0..100)              *)
(*   'total' of an agent     tenths of a point       (round(x, 1))         *)
(*   X5/X6 average lengths   tenths of a character   (round(x, 1))         *)
(*   category final scores   thousandths of a point                        *)
(*   overall score           1/100000 of a point                           *)
(* The label of the lowest grade is written "Midal" (the source uses the   *)
(* Korean word for "below the minimum").                                   *)
(***************************************************************************)
EXTENDS Integers, Sequences, FiniteSets, TLC

VARIABLES
    task,          \* entry point the host calls: "tech", "rights", "market", "patent",
                   \* "grade", "market_score", "metrics", "calls"
    pc,            \* position inside that entry point
    patent_info,   \* the document record (a dict: field name -> value)
    state,         \* the agents' shared state dict (key -> value), written by evaluate()
    result,        \* locals / return value of evaluate_patent (key -> value)
    score,         \* argument of a direct calculate_grade call, in tenths of a point
    setup,         \* two evaluate() calls in flight: the agent, the state dict
                   \* each call was given, the behaviour of the assessor
    states,        \* the state dicts of those calls
    frame,         \* the local variables of each call
    ppc            \* the statement each call is at

vars == <<task, pc, patent_info, state, result, score, setup, states, frame, ppc>>

\* the variables of the calls in flight
call_vars == <<setup, states, frame, ppc>>

----
\* Bounds of the model

MaxClaims == 6        \* longest claim list of the Rights inputs
MaxSeries == 3        \* longest claim list of the Technology / pipeline inputs
MaxDrawings == 10     \* largest drawing_count
MaxIpc == 10          \* longest ipc_codes list
MaxInventors == 8     \* longest inventors list
MaxClaimsCount == 30  \* largest claims_count the extractor reports
MaxRagInventors == 1  \* most inventors the RAG lookup finds
LengthProbeMax == 250 \* longest average length (characters) the curves are probed at
MaxNegGrade == 5      \* calculate_grade arguments start at -MaxNegGrade tenths
MaxGradeScore == 1005 \* largest calculate_grade argument, tenths of a point
MaxLines == 2         \* longest claims field handed to add_quantitative_metrics directly

----
\* Dict helpers

EmptyDict == [k \in {} |-> 0]

Put(d, k, v) == [x \in (DOMAIN d) \cup {k} |-> IF x = k THEN v ELSE d[x]]

\* d.update(r)
PutAll(d, r) ==
    [x \in (DOMAIN d) \cup (DOMAIN r) |-> IF x \in DOMAIN r THEN r[x] ELSE d[x]]

\* d.setdefault(k, v)
SetDefault(d, k, v) == IF k \in DOMAIN d THEN d ELSE Put(d, k, v)

Get(d, k, default) == IF k \in DOMAIN d THEN d[k] ELSE default

\* Python round(num/den, 1): the nearest tenth, ties to the even tenth.
\* The result is in tenths.
RoundTenths(num, den) ==
    LET q == (10 * num) \div den
        r == (10 * num) % den
    IN  IF 2 * r > den THEN q + 1
        ELSE IF 2 * r < den THEN q
        ELSE IF q % 2 = 0 THEN q ELSE q + 1

RECURSIVE SumLen(_)
SumLen(cs) == IF cs = <<>> THEN 0 ELSE Head(cs).len + SumLen(Tail(cs))

----
\* Claim texts.  A text is described by what the code looks at:
\*   len       its character count,
\*   hit       the position at which the earliest dependency phrase
\*             ('je', 'hang-e', 'isseoseo', 'cheongguhang', 'ttoneun',
\*             'naeji') ends, 0 when the text holds none,
\*   numbered  whether it starts with a claim number ("cheongguhang 1.",
\*             "je 1 hang"), the pattern main.py takes for an independent claim.

PrefixWindow == 50

\* _extract_title keeps at most 200 characters
MaxTitle == 200

ClaimTexts ==
    { [len |-> 50,  hit |-> 0,  numbered |-> FALSE],
      [len |-> 200, hit |-> 51, numbered |-> FALSE],
      [len |-> 30,  hit |-> 50, numbered |-> FALSE],
      [len |-> 80,  hit |-> 3,  numbered |-> TRUE] }

ClaimLists(n) == UNION { [1..k -> ClaimTexts] : k \in 0..n }

\* A string of which only the length matters (a title)
Text(n) == [len |-> n]

\* len(s)
PyLen(s) == s.len

\* Python's None where a title is expected (_extract_title found none)
None == [none |-> TRUE]

IsNone(v) == "none" \in DOMAIN v

\* Python's None where an applicant name is expected
\* (_extract_applicant found none)
NoneApplicant == "<None>"

\* patent_info.get('title', 'N/A')[:50] raises TypeError when the title
\* is None; every agent's evaluate begins with it
Agent_title_preview_raises(info) == IsNone(Get(info, "title", Text(3)))

\* any(pattern in claim[:50] for pattern in dependent_patterns)
is_dependent(claim) == claim.hit > 0 /\ claim.hit <= PrefixWindow

----
\* agents/rights_agent.py

NotDependent(claim) == ~is_dependent(claim)

\* _classify_claims without the "at least one independent claim" step
Rights_classify_claims_no_fallback(claims) ==
    <<SelectSeq(claims, NotDependent), SelectSeq(claims, is_dependent)>>

\* RightsAgent._classify_claims: <<independent, dependent>>
Rights_classify_claims(claims) ==
    LET independent == SelectSeq(claims, NotDependent)
        dependent == SelectSeq(claims, is_dependent)
    IN  IF independent = <<>> /\ claims # <<>>
        THEN <<SubSeq(claims, 1, 1), SubSeq(claims, 2, Len(claims))>>
        ELSE <<independent, dependent>>

\* RightsAgent._calculate_quantitative_metrics (X1..X6)
Rights_calculate_quantitative_metrics(info) ==
    LET claims == Get(info, "claims", <<>>)
        cls == Rights_classify_claims(claims)
        independent_claims == cls[1]
        dependent_claims == cls[2]
    IN  [ X1_ipc_count |-> Len(Get(info, "ipc_codes", <<>>)),
          X2_independent_claims |-> Len(independent_claims),
          X3_dependent_claims |-> Len(dependent_claims),
          X4_total_claims |-> Get(info, "claims_count", 0),
          X5_independent_avg_length |->
              IF independent_claims # <<>>
              THEN RoundTenths(SumLen(independent_claims), Len(independent_claims))
              ELSE 0,
          X6_dependent_avg_length |->
              IF dependent_claims # <<>>
              THEN RoundTenths(SumLen(dependent_claims), Len(dependent_claims))
              ELSE 0 ]

\* the checklist whose length-balance entry has no upper limit
Rights_binary_checklist_no_upper(metrics) ==
    [ has_multiple_ipc |-> metrics.X1_ipc_count >= 2,
      has_sufficient_claims |-> metrics.X4_total_claims >= 10,
      has_independent_claim |-> metrics.X2_independent_claims >= 1,
      has_detailed_independent_claim |-> metrics.X5_independent_avg_length >= 1000,
      has_dependent_hierarchy |->
          metrics.X3_dependent_claims >= metrics.X2_independent_claims,
      claims_length_balanced |->
          IF metrics.X5_independent_avg_length > 0
          THEN 500 <= metrics.X6_dependent_avg_length
          ELSE FALSE ]

\* RightsAgent._binary_checklist
Rights_binary_checklist(metrics) ==
    [ has_multiple_ipc |-> metrics.X1_ipc_count >= 2,
      has_sufficient_claims |-> metrics.X4_total_claims >= 10,
      has_independent_claim |-> metrics.X2_independent_claims >= 1,
      has_detailed_independent_claim |-> metrics.X5_independent_avg_length >= 1000,
      has_dependent_hierarchy |->
          metrics.X3_dependent_claims >= metrics.X2_independent_claims,
      claims_length_balanced |->
          IF metrics.X5_independent_avg_length > 0
          THEN 500 <= metrics.X6_dependent_avg_length
               /\ metrics.X6_dependent_avg_length <= metrics.X5_independent_avg_length
          ELSE FALSE ]

\* the IPC curve with the scores of two buckets exchanged
Rights_ipc_score_swapped(ipc_count) ==
    IF ipc_count >= 10 THEN 100
    ELSE IF ipc_count >= 5 THEN 60
    ELSE IF ipc_count >= 2 THEN 75
    ELSE IF ipc_count >= 1 THEN 40
    ELSE 0

Rights_ipc_score(ipc_count) ==
    IF ipc_count >= 10 THEN 100
    ELSE IF ipc_count >= 5 THEN 75
    ELSE IF ipc_count >= 2 THEN 60
    ELSE IF ipc_count >= 1 THEN 40
    ELSE 0

\* the claim-count curve with a floor of 0, like the other count curves
Rights_claims_count_score_zero_floor(total_claims) ==
    IF total_claims >= 30 THEN 100
    ELSE IF total_claims >= 20 THEN 80
    ELSE IF total_claims >= 10 THEN 60
    ELSE IF total_claims >= 5 THEN 40
    ELSE 0

Rights_claims_count_score(total_claims) ==
    IF total_claims >= 30 THEN 100
    ELSE IF total_claims >= 20 THEN 80
    ELSE IF total_claims >= 10 THEN 60
    ELSE IF total_claims >= 5 THEN 40
    ELSE 20

\* independent_length is in tenths of a character
Rights_length_score(independent_length) ==
    IF independent_length >= 2000 THEN 100
    ELSE IF independent_length >= 1000 THEN 70
    ELSE IF independent_length >= 500 THEN 40
    ELSE 20

\* the hierarchy score that forms the ratio whatever the independent count
Rights_hierarchy_score_unguarded(independent_count, dependent_count) ==
    IF independent_count >= 0
    THEN IF dependent_count >= 5 * independent_count THEN 100
         ELSE IF dependent_count >= 3 * independent_count THEN 75
         ELSE IF dependent_count >= 1 * independent_count THEN 50
         ELSE 30
    ELSE 0

\* ratio = dependent_count / independent_count, compared without dividing
Rights_hierarchy_score(independent_count, dependent_count) ==
    IF independent_count > 0
    THEN IF dependent_count >= 5 * independent_count THEN 100
         ELSE IF dependent_count >= 3 * independent_count THEN 75
         ELSE IF dependent_count >= 1 * independent_count THEN 50
         ELSE 30
    ELSE 0

\* RightsAgent._calculate_quantitative_score; 'total' in tenths
Rights_calculate_quantitative_score(metrics) ==
    LET ipc_score == Rights_ipc_score(metrics.X1_ipc_count)
        claims_count_score == Rights_claims_count_score(metrics.X4_total_claims)
        length_score == Rights_length_score(metrics.X5_independent_avg_length)
        hierarchy_score == Rights_hierarchy_score(metrics.X2_independent_claims,
                                                  metrics.X3_dependent_claims)
        total_score == ipc_score * 25 + claims_count_score * 30
                       + length_score * 25 + hierarchy_score * 20
    IN  [ ipc_score |-> ipc_score,
          claims_count_score |-> claims_count_score,
          claims_length_score |-> length_score,
          hierarchy_score |-> hierarchy_score,
          total |-> RoundTenths(total_score, 100) ]

----
\* agents/tech_agent.py

\* _classify_independent_claims without the "at least one" step
Tech_classify_independent_claims_no_fallback(claims) ==
    SelectSeq(claims, NotDependent)

\* TechnologyAgent._classify_independent_claims
Tech_classify_independent_claims(claims) ==
    LET independent == SelectSeq(claims, NotDependent)
    IN  IF independent # <<>> THEN independent
        ELSE SubSeq(claims, 1, IF Len(claims) >= 1 THEN 1 ELSE 0)

\* TechnologyAgent._calculate_quantitative_metrics (X7, X8, X9)
Tech_calculate_quantitative_metrics(info) ==
    [ X7_drawing_count |-> Get(info, "drawing_count", 0),
      X8_title_length |-> PyLen(Get(info, "title", Text(0))),
      X9_claim_series |->
          Len(Tech_classify_independent_claims(Get(info, "claims", <<>>))) ]

\* TechnologyAgent._binary_checklist
Tech_binary_checklist(metrics) ==
    [ has_sufficient_drawings |-> metrics.X7_drawing_count >= 3,
      has_clear_title |-> 10 <= metrics.X8_title_length /\ metrics.X8_title_length <= 100,
      has_claim_series |-> metrics.X9_claim_series >= 1,
      title_not_too_long |-> metrics.X8_title_length <= 100 ]

Tech_drawing_score(drawing_count) ==
    IF drawing_count >= 10 THEN 100
    ELSE IF drawing_count >= 5 THEN 75
    ELSE IF drawing_count >= 3 THEN 60
    ELSE IF drawing_count >= 1 THEN 40
    ELSE 0

\* the title curve whose lowest band takes in the empty title
Tech_title_score_nonneg(title_length) ==
    IF 20 <= title_length /\ title_length <= 80 THEN 100
    ELSE IF 10 <= title_length /\ title_length <= 100 THEN 70
    ELSE IF title_length >= 0 THEN 40
    ELSE 0

Tech_title_score(title_length) ==
    IF 20 <= title_length /\ title_length <= 80 THEN 100
    ELSE IF 10 <= title_length /\ title_length <= 100 THEN 70
    ELSE IF title_length > 0 THEN 40
    ELSE 0

Tech_series_score(claim_series) ==
    IF claim_series >= 3 THEN 100
    ELSE IF claim_series >= 2 THEN 70
    ELSE IF claim_series >= 1 THEN 40
    ELSE 0

\* the weighted sum with the weights of drawings and title exchanged
Tech_calculate_quantitative_score_title_heavy(metrics) ==
    LET drawing_score == Tech_drawing_score(metrics.X7_drawing_count)
        title_score == Tech_title_score(metrics.X8_title_length)
        series_score == Tech_series_score(metrics.X9_claim_series)
        total_score == drawing_score * 30 + title_score * 40 + series_score * 30
    IN  [ drawing_score |-> drawing_score,
          title_score |-> title_score,
          series_score |-> series_score,
          total |-> RoundTenths(total_score, 100) ]

\* TechnologyAgent._calculate_quantitative_score; 'total' in tenths
Tech_calculate_quantitative_score(metrics) ==
    LET drawing_score == Tech_drawing_score(metrics.X7_drawing_count)
        title_score == Tech_title_score(metrics.X8_title_length)
        series_score == Tech_series_score(metrics.X9_claim_series)
        total_score == drawing_score * 40 + title_score * 30 + series_score * 30
    IN  [ drawing_score |-> drawing_score,
          title_score |-> title_score,
          series_score |-> series_score,
          total |-> RoundTenths(total_score, 100) ]

----
\* agents/market_agent.py

\* Applicant names; the table says which of them contain the name of one
\* of the major companies (any(comp in applicant.lower() ...)).
Applicants == {"", "N/A", "Samsung Electronics", "Acme Robotics"}

is_major(applicant) == applicant = "Samsung Electronics"

\* IPC codes; main_ipc is the part before '/', and the table says which
\* main_ipc starts with one of the growing prefixes (G06N, H04L, ...).
IpcCodes == {"G06N3/08", "B60K1/00"}

is_growing(code) == code = "G06N3/08"

\* What the DuckDuckGo text search gives back: no result, results whose
\* text holds one of the keywords, results without a keyword, an exception.
SearchOutcomes == {"none", "keyword", "plain", "error"}

\* MarketAgent._calculate_quantitative_metrics (X10)
Market_calculate_quantitative_metrics(info) ==
    [ X10_inventor_count |-> Len(Get(info, "inventors", <<>>)),
      applicant |-> Get(info, "applicant", "N/A"),
      ipc_count |-> Len(Get(info, "ipc_codes", <<>>)) ]

\* MarketAgent._web_search, part 1: the applicant grade
Market_applicant_grade(applicant, search) ==
    IF applicant # NoneApplicant /\ applicant # "" /\ applicant # "N/A"
    THEN IF is_major(applicant) THEN "Major"
         ELSE IF search = "keyword" THEN "Medium"
         ELSE IF search = "plain" THEN "Small"
         ELSE "Unknown"
    ELSE "Unknown"

\* MarketAgent._web_search, part 2: the grade of the technology field,
\* decided by the first IPC code
Market_tech_grade(ipc_codes, search) ==
    IF ipc_codes # <<>>
    THEN IF is_growing(ipc_codes[1]) THEN "High"
         ELSE IF search = "keyword" THEN "Medium"
         ELSE IF search = "plain" THEN "Low"
         ELSE "Unknown"
    ELSE "Unknown"

\* MarketAgent._web_search
Market_web_search(info, search_applicant, search_tech) ==
    [ applicant_grade |->
          Market_applicant_grade(Get(info, "applicant", ""), search_applicant),
      tech_grade |->
          Market_tech_grade(Get(info, "ipc_codes", <<>>), search_tech) ]

\* MarketAgent._binary_checklist
Market_binary_checklist(metrics, web_result) ==
    [ has_multiple_inventors |-> metrics.X10_inventor_count >= 2,
      is_major_company |-> web_result.applicant_grade \in {"Major", "Medium"},
      is_growing_field |-> web_result.tech_grade \in {"High", "Medium"} ]

\* the inventor curve with the scores of two buckets exchanged
Market_inventor_score_swapped(inventor_count) ==
    IF inventor_count >= 8 THEN 100
    ELSE IF inventor_count >= 5 THEN 60
    ELSE IF inventor_count >= 2 THEN 80
    ELSE IF inventor_count >= 1 THEN 40
    ELSE 0

Market_inventor_score(inventor_count) ==
    IF inventor_count >= 8 THEN 100
    ELSE IF inventor_count >= 5 THEN 80
    ELSE IF inventor_count >= 2 THEN 60
    ELSE IF inventor_count >= 1 THEN 40
    ELSE 0

\* the applicant table with no credit for an unknown applicant
Market_applicant_score_unknown_zero(applicant_grade) ==
    IF applicant_grade = "Major" THEN 100
    ELSE IF applicant_grade = "Medium" THEN 70
    ELSE IF applicant_grade = "Small" THEN 40
    ELSE 0

Market_applicant_score(applicant_grade) ==
    IF applicant_grade = "Major" THEN 100
    ELSE IF applicant_grade = "Medium" THEN 70
    ELSE IF applicant_grade = "Small" THEN 40
    ELSE 20

\* the tech-field table with no credit for an unknown field
Market_tech_field_score_unknown_zero(tech_grade) ==
    IF tech_grade = "High" THEN 100
    ELSE IF tech_grade = "Medium" THEN 70
    ELSE IF tech_grade = "Low" THEN 40
    ELSE 0

Market_tech_field_score(tech_grade) ==
    IF tech_grade = "High" THEN 100
    ELSE IF tech_grade = "Medium" THEN 70
    ELSE IF tech_grade = "Low" THEN 40
    ELSE 20

\* the weighted sum with the tech-field weight 0.40 instead of 0.30
Market_calculate_quantitative_score_overweight(metrics, web_result) ==
    LET inventor_score == Market_inventor_score(metrics.X10_inventor_count)
        applicant_score == Market_applicant_score(web_result.applicant_grade)
        tech_field_score == Market_tech_field_score(web_result.tech_grade)
        total_score == inventor_score * 30 + applicant_score * 40
                       + tech_field_score * 40
    IN  [ inventor_score |-> inventor_score,
          applicant_score |-> applicant_score,
          tech_field_score |-> tech_field_score,
          total |-> RoundTenths(total_score, 100) ]

\* MarketAgent._calculate_quantitative_score; 'total' in tenths
Market_calculate_quantitative_score(metrics, web_result) ==
    LET inventor_score == Market_inventor_score(metrics.X10_inventor_count)
        applicant_score == Market_applicant_score(web_result.applicant_grade)
        tech_field_score == Market_tech_field_score(web_result.tech_grade)
        total_score == inventor_score * 30 + applicant_score * 40
                       + tech_field_score * 30
    IN  [ inventor_score |-> inventor_score,
          applicant_score |-> applicant_score,
          tech_field_score |-> tech_field_score,
          total |-> RoundTenths(total_score, 100) ]

----
\* The qualitative assessor (the LLM call) as seen by the agents

\* Scores the assessor may answer with; 120 lies outside the expected range
QualScores == {30, 120}

\* Contents of a response: JSON carrying a score, JSON without the score
\* key, or text that is not JSON
Responses ==
    [kind : {"json"}, score : QualScores]
        \cup { [kind |-> "nokey", score |-> 0], [kind |-> "garbled", score |-> 0] }

\* _default_qualitative_result of the three agents
Agent_default_qualitative_result ==
    [qualitative_score |-> 60, strengths |-> "default"]

\* _parse_response of the three agents
Agent_parse_response(content) ==
    IF content.kind = "json"
    THEN [qualitative_score |-> content.score, strengths |-> "llm"]
    ELSE IF content.kind = "nokey"
    THEN [strengths |-> "llm"]
    ELSE Agent_default_qualitative_result

\* qualitative_result.get('qualitative_score', 60)
Agent_qualitative_score(qualitative_result) ==
    IF "qualitative_score" \in DOMAIN qualitative_result
    THEN qualitative_result.qualitative_score
    ELSE 60

\* Final scores of the agents, thousandths of a point:
\* quantitative_score['total'] * a + qualitative_score * b
Tech_final_score(total, qualitative_score) == total * 60 + qualitative_score * 400

Rights_final_score(total, qualitative_score) == total * 70 + qualitative_score * 300

Market_final_score(total, qualitative_score) == total * 70 + qualitative_score * 300

----
\* config/weights.py.  Scores handed to calculate_grade are in 1/100000 of
\* a point; a threshold t stands for t points.

Unit == 1000 * 100

\* top-level weights that sum to 1.05
EVALUATION_WEIGHTS_heavy == [technology |-> 50, rights |-> 35, market |-> 20]

EVALUATION_WEIGHTS == [technology |-> 45, rights |-> 35, market |-> 20]

RE_EVALUATION_WEIGHTS == [technology |-> 50, rights |-> 35, market |-> 15]

GRADE_THRESHOLDS ==
    << <<"AAA", 90>>, <<"AA", 85>>, <<"A", 80>>, <<"BBB", 75>>, <<"BB", 70>>,
       <<"B", 65>>, <<"CCC", 60>>, <<"CC", 57>>, <<"C", 55>>, <<"Midal", 0>> >>

RE_EVAL_THRESHOLD == 55

\* calculate_grade comparing with > instead of >=
RECURSIVE GradeFrom_strict(_, _)
GradeFrom_strict(s, i) ==
    IF i > Len(GRADE_THRESHOLDS) THEN "Midal"
    ELSE IF s > GRADE_THRESHOLDS[i][2] * Unit THEN GRADE_THRESHOLDS[i][1]
    ELSE GradeFrom_strict(s, i + 1)

\* the for loop of calculate_grade from table entry i on
RECURSIVE GradeFrom(_, _)
GradeFrom(s, i) ==
    IF i > Len(GRADE_THRESHOLDS) THEN "Midal"
    ELSE IF s >= GRADE_THRESHOLDS[i][2] * Unit THEN GRADE_THRESHOLDS[i][1]
    ELSE GradeFrom(s, i + 1)

\* calculate_grade granting "C" from 50 points on
calculate_grade_c_from_50(s) ==
    IF s >= 50 * Unit /\ s < RE_EVAL_THRESHOLD * Unit THEN "C" ELSE GradeFrom(s, 1)

calculate_grade_strict(s) == GradeFrom_strict(s, 1)

calculate_grade(s) == GradeFrom(s, 1)

----
\* main.py

\* What the RAG lookup of add_quantitative_metrics can find for a record
\* that lacks an applicant
RagApplicants == {"", "Acme Robotics"}

\* the independent_pattern regex of add_quantitative_metrics
matches_independent_pattern(claim) == claim.numbered

NotNumbered(claim) == ~matches_independent_pattern(claim)

\* int(x) of a non-negative quotient
PyInt(num, den) == num \div den

Min(a, b) == IF a <= b THEN a ELSE b

Main_X7(figures) ==
    IF figures >= 10 THEN 100 ELSE IF figures >= 7 THEN 80
    ELSE IF figures >= 4 THEN 60 ELSE IF figures >= 1 THEN 40 ELSE 0

Main_X8(title_len) ==
    IF title_len >= 30 THEN 100 ELSE IF title_len >= 20 THEN 80
    ELSE IF title_len >= 15 THEN 60 ELSE IF title_len >= 10 THEN 40 ELSE 20

Main_X9(indep) ==
    IF indep >= 5 THEN 100 ELSE IF indep >= 3 THEN 80
    ELSE IF indep >= 2 THEN 60 ELSE IF indep >= 1 THEN 40 ELSE 0

Main_X1(ipc) ==
    IF ipc >= 5 THEN 100 ELSE IF ipc >= 3 THEN 75
    ELSE IF ipc >= 1 THEN 50 ELSE 0

Main_X2(claims) ==
    IF claims >= 15 THEN 100 ELSE IF claims >= 10 THEN 80
    ELSE IF claims >= 5 THEN 60 ELSE IF claims >= 1 THEN 40 ELSE 0

Main_X3(avg_len) ==
    IF avg_len >= 150 THEN 100 ELSE IF avg_len >= 100 THEN 80
    ELSE IF avg_len >= 50 THEN 60 ELSE 40

Main_X4(indep) ==
    IF indep >= 5 THEN 100 ELSE IF indep >= 3 THEN 80
    ELSE IF indep >= 2 THEN 60 ELSE IF indep >= 1 THEN 40 ELSE 0

Main_X5(dep) ==
    IF dep >= 15 THEN 100 ELSE IF dep >= 10 THEN 80
    ELSE IF dep >= 5 THEN 60 ELSE IF dep >= 1 THEN 40 ELSE 0

Main_X6(depth) ==
    IF depth >= 5 THEN 100 ELSE IF depth >= 4 THEN 80
    ELSE IF depth >= 3 THEN 60 ELSE IF depth >= 2 THEN 40 ELSE 20

Main_X10(inventors) ==
    IF inventors >= 5 THEN 100 ELSE IF inventors >= 3 THEN 80
    ELSE IF inventors >= 2 THEN 60 ELSE IF inventors >= 1 THEN 40 ELSE 0

\* The other forms of the claims field add_quantitative_metrics accepts.
\* A string is given by its lines ('\n'-separated), each line by its
\* length after strip() (0: a blank line) and by whether it matches the
\* independent pattern; a list of dicts by the dicts.
BlankLine == [len |-> 0, numbered |-> FALSE, line |-> TRUE]

ClaimLines ==
    { [len |-> 80, numbered |-> TRUE, line |-> TRUE],
      [len |-> 30, numbered |-> FALSE, line |-> TRUE],
      BlankLine }

ClaimDicts ==
    { [dict |-> [text |-> Text(80), is_independent |-> TRUE]],
      [dict |-> [text |-> Text(30), is_independent |-> FALSE, dependency_depth |-> 2]],
      [dict |-> [text |-> Text(30)]] }

\* isinstance(claims, str), for a non-empty string
IsStr(claims) == claims # <<>> /\ "line" \in DOMAIN claims[1]

\* isinstance(claims, list) and claims and isinstance(claims[0], dict)
IsDictList(claims) == claims # <<>> /\ "dict" \in DOMAIN claims[1]

\* if line.strip()
NotBlank(l) == l.len > 0

\* c.get('is_independent', False)
DictIndependent(c) == Get(c.dict, "is_independent", FALSE)

DictDependent(c) == ~DictIndependent(c)

\* sum(len(c.get('text', '')) for c in claims)
RECURSIVE SumTextLen(_)
SumTextLen(cs) ==
    IF cs = <<>> THEN 0
    ELSE PyLen(Get(Head(cs).dict, "text", Text(0))) + SumTextLen(Tail(cs))

\* max((c.get('dependency_depth', 0) for c in claims), default=0)
RECURSIVE MaxDepth(_)
MaxDepth(cs) ==
    IF cs = <<>> THEN 0
    ELSE LET d == Get(Head(cs).dict, "dependency_depth", 0)
             m == MaxDepth(Tail(cs))
         IN  IF d >= m THEN d ELSE m

\* add_quantitative_metrics, the claims analysis for a string
Main_claims_analysis_str(info) ==
    LET claim_lines == SelectSeq(info["claims"], NotBlank)
        independent_claims == SelectSeq(claim_lines, matches_independent_pattern)
        dependent_claims == SelectSeq(claim_lines, NotNumbered)
    IN  PutAll(info,
          [ claims_count |-> Len(claim_lines),
            independent_claims_count |->
                IF independent_claims # <<>> THEN Len(independent_claims) ELSE 1,
            dependent_claims_count |-> Len(dependent_claims),
            avg_claim_length |->
                IF claim_lines # <<>>
                THEN PyInt(SumLen(claim_lines), Len(claim_lines)) ELSE 0,
            max_dependency_depth |-> 1 ])

\* add_quantitative_metrics, the claims analysis for a list of strings
Main_claims_analysis_list(info) ==
    LET claims == info["claims"]
        byPattern == SelectSeq(claims, matches_independent_pattern)
        independent_claims ==
            IF byPattern = <<>> THEN SubSeq(claims, 1, 1) ELSE byPattern
        dependent_claims ==
            IF byPattern = <<>> THEN SubSeq(claims, 2, Len(claims))
            ELSE SelectSeq(claims, NotNumbered)
    IN  PutAll(info,
          [ claims_count |-> Len(claims),
            independent_claims_count |-> Len(independent_claims),
            dependent_claims_count |-> Len(dependent_claims),
            avg_claim_length |-> PyInt(SumLen(claims), Len(claims)),
            max_dependency_depth |-> Min(Len(dependent_claims), 5) ])

\* add_quantitative_metrics, the claims analysis for a list of dicts
Main_claims_analysis_dicts(info) ==
    LET claims == info["claims"]
    IN  PutAll(info,
          [ claims_count |-> Len(claims),
            independent_claims_count |-> Len(SelectSeq(claims, DictIndependent)),
            dependent_claims_count |-> Len(SelectSeq(claims, DictDependent)),
            avg_claim_length |-> PyInt(SumTextLen(claims), Len(claims)),
            max_dependency_depth |-> MaxDepth(claims) ])

\* add_quantitative_metrics, the claims analysis: one branch per form
Main_claims_analysis(info) ==
    IF IsStr(info["claims"]) THEN Main_claims_analysis_str(info)
    ELSE IF IsDictList(info["claims"]) THEN Main_claims_analysis_dicts(info)
    ELSE Main_claims_analysis_list(info)

\* add_quantitative_metrics up to and including inventors_count
Main_metrics_inventors(info0, rag_inventors) ==
    LET i1 == IF "drawing_count" \in DOMAIN info0
              THEN Put(info0, "figures_count", info0["drawing_count"]) ELSE info0
        i2 == IF "inventors" \in DOMAIN i1 /\ i1["inventors"] = <<>>
                 /\ rag_inventors # <<>>
              THEN Put(i1, "inventors", SubSeq(rag_inventors, 1, Min(Len(rag_inventors), 5)))
              ELSE i1
    IN  IF "inventors" \in DOMAIN i2
        THEN Put(i2, "inventors_count", Len(i2["inventors"])) ELSE i2

\* add_quantitative_metrics from the applicant lookup to the setdefaults
Main_metrics_defaults(i3, rag_applicant) ==
    LET i4 == IF "applicant" \in DOMAIN i3 /\ i3["applicant"] \in {"", "Unknown"}
                 /\ rag_applicant # ""
              THEN Put(i3, "applicant", rag_applicant) ELSE i3
        i5 == IF "ipc_codes" \in DOMAIN i4
              THEN Put(i4, "ipc_count", Len(i4["ipc_codes"])) ELSE i4
        i6 == IF "claims" \in DOMAIN i5 /\ i5["claims"] # <<>>
              THEN Main_claims_analysis(i5) ELSE i5
    IN  SetDefault(SetDefault(SetDefault(SetDefault(SetDefault(SetDefault(
        SetDefault(SetDefault(i6,
            "figures_count", 0), "claims_count", 0),
            "independent_claims_count", 0), "dependent_claims_count", 0),
            "avg_claim_length", 0), "ipc_count", 0),
            "max_dependency_depth", 1), "inventors_count", 0)

\* add_quantitative_metrics: the record it returns (the same dict object it
\* was given).  rag_inventors names the inventors and rag_applicant the
\* applicant the RAG lookup finds (<<>> and "" when it finds none).
add_quantitative_metrics(info0, rag_inventors, rag_applicant) ==
    LET i7 == Main_metrics_defaults(Main_metrics_inventors(info0, rag_inventors),
                                    rag_applicant)
    IN  PutAll(i7,
          [ X7 |-> Main_X7(i7["figures_count"]),
            X8 |-> Main_X8(PyLen(Get(i7, "title", Text(0)))),
            X9 |-> Main_X9(i7["independent_claims_count"]),
            X1 |-> Main_X1(i7["ipc_count"]),
            X2 |-> Main_X2(i7["claims_count"]),
            X3 |-> Main_X3(i7["avg_claim_length"]),
            X4 |-> Main_X4(i7["independent_claims_count"]),
            X5 |-> Main_X5(i7["dependent_claims_count"]),
            X6 |-> Main_X6(i7["max_dependency_depth"]),
            X10 |-> Main_X10(i7["inventors_count"]) ])

\* add_quantitative_metrics raises: AttributeError at
\* patent_info.get('applicant', '').strip() when the applicant is None,
\* TypeError at len(patent_info.get('title', '')) when the title is None
add_quantitative_metrics_raises(info0) ==
    \/ "applicant" \in DOMAIN info0 /\ info0["applicant"] = NoneApplicant
    \/ IsNone(Get(info0, "title", Text(0)))

\* the dict as add_quantitative_metrics leaves it when it raises
add_quantitative_metrics_partial(info0, rag_inventors, rag_applicant) ==
    LET i3 == Main_metrics_inventors(info0, rag_inventors)
    IN  IF "applicant" \in DOMAIN info0 /\ info0["applicant"] = NoneApplicant
        THEN i3
        ELSE LET i7 == Main_metrics_defaults(i3, rag_applicant)
             IN  Put(i7, "X7", Main_X7(i7["figures_count"]))

\* parse_llm_response with a default_result: the parsed dict, of which
\* total_score and key_strengths are kept here; the default_result of
\* each evaluate_* function carries its own total_score and the text
\* "default value used" as its key_strengths
Main_parse_llm_response(content, default_total) ==
    IF content.kind = "json" THEN [total_score |-> content.score]
    ELSE IF content.kind = "nokey" THEN EmptyDict
    ELSE [total_score |-> default_total, key_strengths |-> "default"]

\* evaluate_technology: quantitative in tenths, total_score in thousandths
evaluate_technology(info, content) ==
    LET parsed == Main_parse_llm_response(content, 75)
        quantitative_tech ==
            Get(info, "X7", 0) * 4 + Get(info, "X8", 0) * 3 + Get(info, "X9", 0) * 3
        qualitative_tech == Get(parsed, "total_score", 75)
    IN  PutAll(parsed,
          [ quantitative_score |-> quantitative_tech,
            qualitative_score |-> qualitative_tech,
            total_score |-> quantitative_tech * 60 + qualitative_tech * 400 ])

\* evaluate_rights: quantitative in hundredths, total_score in thousandths
evaluate_rights(info, content) ==
    LET parsed == Main_parse_llm_response(content, 65)
        quantitative_rights ==
            Get(info, "X1", 0) * 15 + Get(info, "X2", 0) * 20 + Get(info, "X3", 0) * 15
            + Get(info, "X4", 0) * 20 + Get(info, "X5", 0) * 15 + Get(info, "X6", 0) * 15
        qualitative_rights == Get(parsed, "total_score", 65)
    IN  PutAll(parsed,
          [ quantitative_score |-> quantitative_rights,
            qualitative_score |-> qualitative_rights,
            total_score |-> quantitative_rights * 7 + qualitative_rights * 300 ])

\* evaluate_market: quantitative in points, total_score in thousandths
evaluate_market(info, content) ==
    LET parsed == Main_parse_llm_response(content, 60)
        quantitative_market == Get(info, "X10", 0)
        qualitative_market == Get(parsed, "total_score", 60)
    IN  PutAll(parsed,
          [ quantitative_score |-> quantitative_market,
            qualitative_score |-> qualitative_market,
            total_score |-> quantitative_market * 300 + qualitative_market * 700 ])

\* the overall score under the weights of the re-evaluation set
overall_score_re_weighted(tech_score, rights_score, market_score) ==
    tech_score * RE_EVALUATION_WEIGHTS.technology
    + rights_score * RE_EVALUATION_WEIGHTS.rights
    + market_score * RE_EVALUATION_WEIGHTS.market

\* evaluate_patent, the overall score (1/100000 of a point) of three
\* category scores given in thousandths
overall_score(tech_score, rights_score, market_score) ==
    tech_score * EVALUATION_WEIGHTS.technology
    + rights_score * EVALUATION_WEIGHTS.rights
    + market_score * EVALUATION_WEIGHTS.market

----
\* Input records

Record(title, applicant, inventors, claims, ipc_codes, drawing_count, claims_count) ==
    [ title |-> title, applicant |-> applicant, inventors |-> inventors,
      claims |-> claims, ipc_codes |-> ipc_codes,
      drawing_count |-> drawing_count, claims_count |-> claims_count ]

\* n distinct inventor names
Inventors(n) == [i \in 1..n |-> i]

\* n IPC codes
IpcList(n) == [i \in 1..n |-> "B60K1/00"]

TitleLengths == {0, 1, 9, 10, 19, 20, 25, 80, 81, 100, 101}

\* what the extractor returns for a document in which it finds nothing
\* but an empty title
BlankRecord == Record(Text(0), "", <<>>, <<>>, <<>>, 0, 0)

\* the extractor's failure defaults: no title and no applicant found
\* (None), no claims, IPC codes, inventors or drawings
FailedExtractionRecord == Record(None, NoneApplicant, <<>>, <<>>, <<>>, 0, 0)

\* a document of which only the title was not found
UntitledRecord == Record(None, "Acme Robotics", Inventors(1), <<>>, IpcList(1), 0, 0)

\* records handed to TechnologyAgent.evaluate
TechInputs ==
    { Record(Text(t), "Acme Robotics", Inventors(1), cs, <<>>, d, Len(cs)) :
        t \in TitleLengths, cs \in ClaimLists(MaxSeries), d \in 0..MaxDrawings }
    \cup {FailedExtractionRecord, UntitledRecord}

\* records handed to RightsAgent.evaluate
RightsInputs ==
    { Record(Text(25), "Acme Robotics", Inventors(1), cs, <<>>, 0, Len(cs)) :
        cs \in ClaimLists(MaxClaims) }
    \cup
    { Record(Text(25), "Acme Robotics", Inventors(1), cs, IpcList(n), 0, c) :
        cs \in ClaimLists(1), n \in 0..MaxIpc, c \in 0..MaxClaimsCount }
    \cup {BlankRecord, FailedExtractionRecord}

\* records handed to MarketAgent.evaluate
MarketInputs ==
    { Record(Text(25), a, Inventors(n), <<>>, ipc, 0, 0) :
        a \in Applicants, n \in 0..MaxInventors,
        ipc \in UNION { [1..k -> IpcCodes] : k \in 0..2 } }
    \cup {BlankRecord, FailedExtractionRecord}

\* records evaluate_patent gets from the extractor
PatentInputs ==
    { Record(Text(t), a, Inventors(n), cs, IpcList(k), d, Len(cs)) :
        t \in {0, 25}, a \in {"", "Acme Robotics"}, n \in {0, 2},
        cs \in ClaimLists(1), k \in {0, 3}, d \in {0, MaxDrawings} }
    \cup {FailedExtractionRecord, UntitledRecord}

\* records handed to add_quantitative_metrics directly: the claims field
\* a string, a list of strings or a list of dicts
MetricsInputs ==
    { Record(Text(25), "Acme Robotics", Inventors(1), cs, IpcList(1), 0, Len(cs)) :
        cs \in UNION { [1..k -> ClaimLines] \cup [1..k -> ClaimDicts]
                          \cup [1..k -> ClaimTexts] : k \in 1..MaxLines } }

\* tier labels a caller may hand to the scorer: the enumerated ones and
\* "Large", which is in neither set
TierLabels == {"Major", "Medium", "Small", "Unknown", "High", "Low", "Large"}

\* arguments of a direct call of MarketAgent._calculate_quantitative_score
MarketScoreArgs ==
    { [ market_metrics |-> [X10_inventor_count |-> n],
        market_web_search |-> [applicant_grade |-> ag, tech_grade |-> tg] ] :
        n \in {0, 2}, ag \in TierLabels, tg \in TierLabels }

----
\* Two calls of an agent's evaluate(state) in flight, statement by statement

Docs == {1, 2}

Agents == {"tech", "rights", "market"}

\* state["patent_info"]: the records of the two documents, by path
CallRecords ==
    << Record(Text(25), "Samsung Electronics", Inventors(2),
              <<[len |-> 200, hit |-> 51, numbered |-> FALSE]>>, <<"G06N3/08">>, 8, 1),
       Record(Text(9), "Acme Robotics", Inventors(5), <<>>,
              <<"B60K1/00", "B60K1/00">>, 0, 0) >>

\* How the assessor answers: always with the score 30, always with text
\* that is not JSON, or with a score it takes from the checklist it is shown
Assessors == {"terse", "garbled", "checklist_led"}

\* self.prompt_template.format(..., quantitative_metrics=...,
\* quantitative_score=..., binary_checklist=...): what the assessor is shown
Agent_prompt(quantitative_metrics, quantitative_score, binary_checklist) ==
    [ quantitative_metrics |-> quantitative_metrics,
      quantitative_score |-> quantitative_score,
      binary_checklist |-> binary_checklist ]

\* self.llm.invoke(prompt).content
LLM_invoke(assessor, prompt) ==
    IF assessor = "terse" THEN [kind |-> "json", score |-> 30]
    ELSE IF assessor = "garbled" THEN [kind |-> "garbled", score |-> 0]
    ELSE [ kind |-> "json",
           score |-> IF \E k \in DOMAIN prompt.binary_checklist :
                           prompt.binary_checklist[k]
                     THEN 120 ELSE 30 ]

IsWrite(step) == step = "write"

\* the statements of evaluate, in source order; "write" is one
\* state[key] = value assignment
Steps(agent) ==
    IF agent = "market"
    THEN << "call", "metrics", "web", "checklist", "score", "llm", "final",
            "write", "write", "write", "write", "write", "write", "done" >>
    ELSE << "call", "metrics", "checklist", "score", "llm", "final",
            "write", "write", "write", "write", "write", "done" >>

\* the keys evaluate assigns, in source order
StateKeys(agent) ==
    CASE agent = "tech" ->
           <<"tech_score", "tech_quantitative", "tech_qualitative",
             "tech_metrics", "tech_binary">>
      [] agent = "rights" ->
           <<"rights_score", "rights_quantitative", "rights_qualitative",
             "rights_metrics", "rights_binary">>
      [] OTHER ->
           <<"market_score", "market_quantitative", "market_qualitative",
             "market_metrics", "market_binary", "market_web_search">>

\* the local variable assigned to the i-th key
WrittenValue(f, i) ==
    CASE i = 1 -> f["final_score"]
      [] i = 2 -> f["quantitative_score"]
      [] i = 3 -> f["qualitative_result"]
      [] i = 4 -> f["quantitative_metrics"]
      [] i = 5 -> f["binary_checklist"]
      [] OTHER -> f["web_search_result"]

Agent_calculate_quantitative_metrics(agent, info) ==
    CASE agent = "tech" -> Tech_calculate_quantitative_metrics(info)
      [] agent = "rights" -> Rights_calculate_quantitative_metrics(info)
      [] OTHER -> Market_calculate_quantitative_metrics(info)

Agent_binary_checklist(agent, f) ==
    CASE agent = "tech" -> Tech_binary_checklist(f["quantitative_metrics"])
      [] agent = "rights" -> Rights_binary_checklist(f["quantitative_metrics"])
      [] OTHER -> Market_binary_checklist(f["quantitative_metrics"],
                                          f["web_search_result"])

Agent_calculate_quantitative_score(agent, f) ==
    CASE agent = "tech" -> Tech_calculate_quantitative_score(f["quantitative_metrics"])
      [] agent = "rights" -> Rights_calculate_quantitative_score(f["quantitative_metrics"])
      [] OTHER -> Market_calculate_quantitative_score(f["quantitative_metrics"],
                                                      f["web_search_result"])

Agent_final_score(agent, total, qualitative_score) ==
    CASE agent = "tech" -> Tech_final_score(total, qualitative_score)
      [] agent = "rights" -> Rights_final_score(total, qualitative_score)
      [] OTHER -> Market_final_score(total, qualitative_score)

----
\* The state machine

\* one entry point called once
InitSingle ==
    /\ task \in {"tech", "rights", "market", "patent", "grade", "market_score",
               "metrics"}
    /\ pc = "start"
    /\ patent_info \in
         CASE task = "tech" -> TechInputs
           [] task = "rights" -> RightsInputs
           [] task = "market" -> MarketInputs
           [] task = "patent" -> PatentInputs
           [] task = "metrics" -> MetricsInputs
           [] OTHER -> {EmptyDict}
    /\ state \in IF task = "market_score" THEN MarketScoreArgs ELSE {EmptyDict}
    /\ result = EmptyDict
    /\ score \in IF task = "grade" THEN (-MaxNegGrade)..MaxGradeScore ELSE {0}
    /\ setup = EmptyDict /\ states = EmptyDict /\ frame = EmptyDict /\ ppc = EmptyDict

\* two evaluate() calls of one agent, one per document; the caller gives
\* them the same state dict or a dict each
InitCalls ==
    /\ task = "calls" /\ pc = "start"
    /\ patent_info = EmptyDict /\ state = EmptyDict /\ result = EmptyDict
    /\ score = 0
    /\ setup \in [ agent : Agents, state_of : {<<1, 1>>, <<1, 2>>},
                    assessor : Assessors ]
    /\ states = [k \in Docs |-> [patent_info |-> CallRecords]]
    /\ frame = [d \in Docs |-> EmptyDict]
    /\ ppc = [d \in Docs |-> 1]

Init == InitSingle \/ InitCalls

\* the statement call d is at
At(d) == Steps(setup.agent)[ppc[d]]

\* call d goes on to its next statement, with local variable k set to v
Advance(d, k, v) ==
    /\ frame' = [frame EXCEPT ![d] = Put(@, k, v)]
    /\ ppc' = [ppc EXCEPT ![d] = @ + 1]

\* the caller sets state["current_patent"] and calls evaluate(state):
\* patent_path = state["current_patent"];
\* patent_info = state["patent_info"][patent_path]
CallStart(d) ==
    /\ task = "calls" /\ At(d) = "call"
    /\ LET k == setup.state_of[d]
           st == Put(states[k], "current_patent", d)
           patent_path == st["current_patent"]
       IN  /\ ~Agent_title_preview_raises(st["patent_info"][patent_path])
           /\ states' = [states EXCEPT ![k] = st]
           /\ Advance(d, "patent_info", st["patent_info"][patent_path])
    /\ UNCHANGED <<task, pc, patent_info, state, result, score, setup>>

\* quantitative_metrics = self._calculate_quantitative_metrics(patent_info)
CallMetrics(d) ==
    /\ task = "calls" /\ At(d) = "metrics"
    /\ Advance(d, "quantitative_metrics",
               Agent_calculate_quantitative_metrics(setup.agent, frame[d]["patent_info"]))
    /\ UNCHANGED <<task, pc, patent_info, state, result, score, setup, states>>

\* web_search_result = self._web_search(patent_info)   (MarketAgent)
CallWebSearch(d) ==
    /\ task = "calls" /\ At(d) = "web"
    /\ \E search_applicant \in SearchOutcomes, search_tech \in SearchOutcomes :
         Advance(d, "web_search_result",
                 Market_web_search(frame[d]["patent_info"], search_applicant, search_tech))
    /\ UNCHANGED <<task, pc, patent_info, state, result, score, setup, states>>

\* binary_checklist = self._binary_checklist(quantitative_metrics)
CallChecklist(d) ==
    /\ task = "calls" /\ At(d) = "checklist"
    /\ Advance(d, "binary_checklist", Agent_binary_checklist(setup.agent, frame[d]))
    /\ UNCHANGED <<task, pc, patent_info, state, result, score, setup, states>>

\* quantitative_score = self._calculate_quantitative_score(quantitative_metrics)
CallScore(d) ==
    /\ task = "calls" /\ At(d) = "score"
    /\ Advance(d, "quantitative_score",
               Agent_calculate_quantitative_score(setup.agent, frame[d]))
    /\ UNCHANGED <<task, pc, patent_info, state, result, score, setup, states>>

\* prompt = self.prompt_template.format(...); response = self.llm.invoke(prompt);
\* qualitative_result = self._parse_response(response.content)
CallLLM(d) ==
    /\ task = "calls" /\ At(d) = "llm"
    /\ LET f == frame[d]
           prompt == Agent_prompt(f["quantitative_metrics"], f["quantitative_score"],
                                  f["binary_checklist"])
       IN  Advance(d, "qualitative_result",
                   Agent_parse_response(LLM_invoke(setup.assessor, prompt)))
    /\ UNCHANGED <<task, pc, patent_info, state, result, score, setup, states>>

\* qualitative_score = qualitative_result.get('qualitative_score', 60);
\* tech_score = quantitative_score['total'] * 0.6 + qualitative_score * 0.4
CallFinal(d) ==
    /\ task = "calls" /\ At(d) = "final"
    /\ Advance(d, "final_score",
               Agent_final_score(setup.agent, frame[d]["quantitative_score"].total,
                                 Agent_qualitative_score(frame[d]["qualitative_result"])))
    /\ UNCHANGED <<task, pc, patent_info, state, result, score, setup, states>>

\* state['tech_score'] = tech_score, ..., one assignment at a time
CallWrite(d) ==
    /\ task = "calls" /\ At(d) = "write"
    /\ LET k == setup.state_of[d]
           i == Len(SelectSeq(SubSeq(Steps(setup.agent), 1, ppc[d]), IsWrite))
       IN  states' = [states EXCEPT ![k] =
                         Put(@, StateKeys(setup.agent)[i], WrittenValue(frame[d], i))]
    /\ ppc' = [ppc EXCEPT ![d] = @ + 1]
    /\ UNCHANGED <<task, pc, patent_info, state, result, score, setup, frame>>

\* TechnologyAgent.evaluate
TechEvaluate ==
    /\ task = "tech" /\ pc = "start"
    /\ ~Agent_title_preview_raises(patent_info)
    /\ \E content \in Responses :
         LET quantitative_metrics == Tech_calculate_quantitative_metrics(patent_info)
             binary_checklist == Tech_binary_checklist(quantitative_metrics)
             quantitative_score == Tech_calculate_quantitative_score(quantitative_metrics)
             qualitative_result == Agent_parse_response(content)
             qualitative_score == Agent_qualitative_score(qualitative_result)
             tech_score == Tech_final_score(quantitative_score.total, qualitative_score)
         IN  state' = PutAll(state,
               [ tech_score |-> tech_score,
                 tech_quantitative |-> quantitative_score,
                 tech_qualitative |-> qualitative_result,
                 tech_metrics |-> quantitative_metrics,
                 tech_binary |-> binary_checklist ])
    /\ pc' = "done"
    /\ UNCHANGED <<task, patent_info, result, score>>
    /\ UNCHANGED call_vars

\* RightsAgent.evaluate
RightsEvaluate ==
    /\ task = "rights" /\ pc = "start"
    /\ ~Agent_title_preview_raises(patent_info)
    /\ \E content \in Responses :
         LET quantitative_metrics == Rights_calculate_quantitative_metrics(patent_info)
             binary_checklist == Rights_binary_checklist(quantitative_metrics)
             quantitative_score == Rights_calculate_quantitative_score(quantitative_metrics)
             qualitative_result == Agent_parse_response(content)
             qualitative_score == Agent_qualitative_score(qualitative_result)
             rights_score == Rights_final_score(quantitative_score.total, qualitative_score)
         IN  state' = PutAll(state,
               [ rights_score |-> rights_score,
                 rights_quantitative |-> quantitative_score,
                 rights_qualitative |-> qualitative_result,
                 rights_metrics |-> quantitative_metrics,
                 rights_binary |-> binary_checklist ])
    /\ pc' = "done"
    /\ UNCHANGED <<task, patent_info, result, score>>
    /\ UNCHANGED call_vars

\* MarketAgent.evaluate
MarketEvaluate ==
    /\ task = "market" /\ pc = "start"
    /\ ~Agent_title_preview_raises(patent_info)
    /\ \E content \in Responses, search_applicant \in SearchOutcomes,
          search_tech \in SearchOutcomes :
         LET quantitative_metrics == Market_calculate_quantitative_metrics(patent_info)
             web_search_result ==
                 Market_web_search(patent_info, search_applicant, search_tech)
             binary_checklist ==
                 Market_binary_checklist(quantitative_metrics, web_search_result)
             quantitative_score ==
                 Market_calculate_quantitative_score(quantitative_metrics, web_search_result)
             qualitative_result == Agent_parse_response(content)
             qualitative_score == Agent_qualitative_score(qualitative_result)
             market_score == Market_final_score(quantitative_score.total, qualitative_score)
         IN  state' = PutAll(state,
               [ market_score |-> market_score,
                 market_quantitative |-> quantitative_score,
                 market_qualitative |-> qualitative_result,
                 market_metrics |-> quantitative_metrics,
                 market_binary |-> binary_checklist,
                 market_web_search |-> web_search_result ])
    /\ pc' = "done"
    /\ UNCHANGED <<task, patent_info, result, score>>
    /\ UNCHANGED call_vars

\* an agent's evaluate raises at its first statement; state is untouched
AgentEvaluateRaises ==
    /\ task \in {"tech", "rights", "market"} /\ pc = "start"
    /\ Agent_title_preview_raises(patent_info)
    /\ pc' = "raised"
    /\ UNCHANGED <<task, patent_info, state, result, score>>
    /\ UNCHANGED call_vars

\* evaluate_patent: add_quantitative_metrics raises and evaluate_patent
\* with it, the dict left as far as it was filled in
PatentAddMetricsRaises ==
    /\ task = "patent" /\ pc = "start"
    /\ add_quantitative_metrics_raises(patent_info)
    /\ \E n \in 0..MaxRagInventors, rag_applicant \in RagApplicants :
         patent_info' =
             add_quantitative_metrics_partial(patent_info, Inventors(n), rag_applicant)
    /\ pc' = "raised"
    /\ UNCHANGED <<task, state, result, score>>
    /\ UNCHANGED call_vars

\* evaluate_patent: patent_info = self.add_quantitative_metrics(patent_info, ...)
PatentAddMetrics ==
    /\ task = "patent" /\ pc = "start"
    /\ ~add_quantitative_metrics_raises(patent_info)
    /\ \E n \in 0..MaxRagInventors, rag_applicant \in RagApplicants :
         patent_info' = add_quantitative_metrics(patent_info, Inventors(n), rag_applicant)
    /\ pc' = "metrics"
    /\ UNCHANGED <<task, state, result, score>>
    /\ UNCHANGED call_vars

\* evaluate_technology started on the record as extracted, before the
\* metrics were added to it
PatentEvaluateTechnology_before_metrics ==
    /\ task = "patent" /\ pc \in {"start", "metrics"}
    /\ \E content \in Responses :
         result' = Put(result, "tech_result", evaluate_technology(patent_info, content))
    /\ pc' = "tech"
    /\ UNCHANGED <<task, patent_info, state, score>>
    /\ UNCHANGED call_vars

\* evaluate_patent: tech_result = self.evaluate_technology(...)
PatentEvaluateTechnology ==
    /\ task = "patent" /\ pc = "metrics"
    /\ \E content \in Responses :
         result' = Put(result, "tech_result", evaluate_technology(patent_info, content))
    /\ pc' = "tech"
    /\ UNCHANGED <<task, patent_info, state, score>>
    /\ UNCHANGED call_vars

\* evaluate_patent: rights_result = self.evaluate_rights(...)
PatentEvaluateRights ==
    /\ task = "patent" /\ pc = "tech"
    /\ \E content \in Responses :
         result' = Put(result, "rights_result", evaluate_rights(patent_info, content))
    /\ pc' = "rights"
    /\ UNCHANGED <<task, patent_info, state, score>>
    /\ UNCHANGED call_vars

\* evaluate_patent: market_result = self.evaluate_market(...)
PatentEvaluateMarket ==
    /\ task = "patent" /\ pc = "rights"
    /\ \E content \in Responses :
         result' = Put(result, "market_result", evaluate_market(patent_info, content))
    /\ pc' = "market"
    /\ UNCHANGED <<task, patent_info, state, score>>
    /\ UNCHANGED call_vars

\* evaluate_patent: the three total_score values and the overall score
PatentAggregate ==
    /\ task = "patent" /\ pc = "market"
    /\ LET tech_score == Get(result["tech_result"], "total_score", 70 * 1000)
           rights_score == Get(result["rights_result"], "total_score", 65 * 1000)
           market_score == Get(result["market_result"], "total_score", 60 * 1000)
       IN  result' = PutAll(result,
             [ tech_score |-> tech_score,
               rights_score |-> rights_score,
               market_score |-> market_score,
               overall_score |-> overall_score(tech_score, rights_score, market_score) ])
    /\ pc' = "overall"
    /\ UNCHANGED <<task, patent_info, state, score>>
    /\ UNCHANGED call_vars

\* evaluate_patent: grade = calculate_grade(overall_score) and the
\* returned dict
PatentGrade ==
    /\ task = "patent" /\ pc = "overall"
    /\ result' = PutAll(result,
          [ scores |-> [ technology |-> result["tech_score"],
                         rights |-> result["rights_score"],
                         market |-> result["market_score"],
                         overall |-> result["overall_score"] ],
            grade |-> calculate_grade(result["overall_score"]) ])
    /\ pc' = "done"
    /\ UNCHANGED <<task, patent_info, state, score>>
    /\ UNCHANGED call_vars

\* a direct call add_quantitative_metrics(patent_info, pdf_path)
MetricsCall ==
    /\ task = "metrics" /\ pc = "start"
    /\ ~add_quantitative_metrics_raises(patent_info)
    /\ \E n \in 0..MaxRagInventors, rag_applicant \in RagApplicants :
         patent_info' = add_quantitative_metrics(patent_info, Inventors(n), rag_applicant)
    /\ pc' = "done"
    /\ UNCHANGED <<task, state, result, score>>
    /\ UNCHANGED call_vars

\* a direct call calculate_grade(score), score in tenths of a point
GradeCall ==
    /\ task = "grade" /\ pc = "start"
    /\ result' = Put(result, "grade", calculate_grade(score * (Unit \div 10)))
    /\ pc' = "done"
    /\ UNCHANGED <<task, patent_info, state, score>>
    /\ UNCHANGED call_vars

\* a direct call of _calculate_quantitative_score(metrics, web_result)
MarketScoreCall ==
    /\ task = "market_score" /\ pc = "start"
    /\ result' = Put(result, "market_quantitative",
                     Market_calculate_quantitative_score(
                         state["market_metrics"], state["market_web_search"]))
    /\ pc' = "done"
    /\ UNCHANGED <<task, patent_info, state, score>>
    /\ UNCHANGED call_vars

Next ==
    \/ TechEvaluate
    \/ RightsEvaluate
    \/ MarketEvaluate
    \/ PatentAddMetrics
    \/ PatentEvaluateTechnology
    \/ PatentEvaluateRights
    \/ PatentEvaluateMarket
    \/ PatentAggregate
    \/ PatentGrade
    \/ GradeCall
    \/ MarketScoreCall
    \/ MetricsCall
    \/ AgentEvaluateRaises
    \/ PatentAddMetricsRaises
    \/ \E d \in Docs :
         \/ CallStart(d)
         \/ CallMetrics(d)
         \/ CallWebSearch(d)
         \/ CallChecklist(d)
         \/ CallScore(d)
         \/ CallLLM(d)
         \/ CallFinal(d)
         \/ CallWrite(d)

Spec == Init /\ [][Next]_vars

----
\* Shorthands for the claims

TechDone == task = "tech" /\ pc = "done"

RightsDone == task = "rights" /\ pc = "done"

MarketDone == task = "market" /\ pc = "done"

PatentDone == task = "patent" /\ pc = "done"

GradeDone == task = "grade" /\ pc = "done"

MarketScoreDone == task = "market_score" /\ pc = "done"

AllDependent(claims) == \A i \in 1..Len(claims) : is_dependent(claims[i])

----
\* C1: _classify_claims loses and invents no claim: the independent and
\* the dependent claims together are as many as the claims, a non-empty
\* list has at least one independent claim, and when every claim reads as
\* dependent the first claim alone is independent and the rest dependent.
\* The counts RightsAgent.evaluate stores are those of that split.
C1_ClassifyTotalPreserving ==
    RightsDone =>
        LET claims == patent_info["claims"]
            cls == Rights_classify_claims(claims)
            m == state["rights_metrics"]
        IN  /\ Len(cls[1]) + Len(cls[2]) = Len(claims)
            /\ (Len(claims) >= 1 => Len(cls[1]) >= 1)
            /\ (Len(claims) >= 1 /\ AllDependent(claims)
                    => cls[1] = <<claims[1]>> /\ cls[2] = Tail(claims))
            /\ m.X2_independent_claims = Len(cls[1])
            /\ m.X3_dependent_claims = Len(cls[2])
            /\ m.X2_independent_claims + m.X3_dependent_claims = Len(claims)

\* C1 witness: three claims that all read as dependent were classified
C1_Witness ==
    /\ RightsDone
    /\ Len(patent_info["claims"]) = 3
    /\ AllDependent(patent_info["claims"])
    /\ state["rights_metrics"].X2_independent_claims = 1
    /\ state["rights_metrics"].X3_dependent_claims = 2

\* C2: every component score and every total of the three
\* _calculate_quantitative_score functions lies in [0, 100]
\* (totals are in tenths: 0..1000).
C2_ScoresBounded ==
    /\ TechDone =>
         LET q == state["tech_quantitative"]
         IN  /\ q.drawing_score \in 0..100
             /\ q.title_score \in 0..100
             /\ q.series_score \in 0..100
             /\ q.total \in 0..1000
    /\ RightsDone =>
         LET q == state["rights_quantitative"]
         IN  /\ q.ipc_score \in 0..100
             /\ q.claims_count_score \in 0..100
             /\ q.claims_length_score \in 0..100
             /\ q.hierarchy_score \in 0..100
             /\ q.total \in 0..1000
    /\ MarketDone =>
         LET q == state["market_quantitative"]
         IN  /\ q.inventor_score \in 0..100
             /\ q.applicant_score \in 0..100
             /\ q.tech_field_score \in 0..100
             /\ q.total \in 0..1000

\* C2 witness: a Market evaluation whose three components are all 100
C2_Witness ==
    /\ MarketDone
    /\ state["market_quantitative"].inventor_score = 100
    /\ state["market_quantitative"].applicant_score = 100
    /\ state["market_quantitative"].tech_field_score = 100
    /\ state["market_quantitative"].total = 1000

\* The grade table as the specification words it, for a score in tenths
GradeTable(t) ==
    IF t >= 900 THEN "AAA" ELSE IF t >= 850 THEN "AA" ELSE IF t >= 800 THEN "A"
    ELSE IF t >= 750 THEN "BBB" ELSE IF t >= 700 THEN "BB" ELSE IF t >= 650 THEN "B"
    ELSE IF t >= 600 THEN "CCC" ELSE IF t >= 570 THEN "CC" ELSE IF t >= 550 THEN "C"
    ELSE "Midal"

\* C4: calculate_grade gives the first label, in descending order, whose
\* threshold the score meets; the lower bounds are inclusive: 90.0 is AAA,
\* 89.9 is AA, 55.0 is C and 54.9 is below the minimum.
C4_GradeTableExact ==
    GradeDone =>
        /\ result["grade"] = GradeTable(score)
        /\ (score = 900 => result["grade"] = "AAA")
        /\ (score = 899 => result["grade"] = "AA")
        /\ (score = 550 => result["grade"] = "C")
        /\ (score = 549 => result["grade"] = "Midal")

\* C4 witness: the score 90.0 was graded AAA
C4_Witness == GradeDone /\ score = 900 /\ result["grade"] = "AAA"

----
\* The re-evaluation pass the weights module was written for: the overall
\* score (1/100000 of a point) under RE_EVALUATION_WEIGHTS
re_evaluation_score(tech_score, rights_score, market_score) ==
    tech_score * RE_EVALUATION_WEIGHTS.technology
    + rights_score * RE_EVALUATION_WEIGHTS.rights
    + market_score * RE_EVALUATION_WEIGHTS.market

\* C3: whenever the overall score under the normal weights is below 55,
\* the reported score and grade are those of the re-evaluation weights
\* {0.50, 0.35, 0.15}.
C3_ReEvaluationReported ==
    PatentDone =>
        LET sc == result["scores"]
            normal == sc.technology * 45 + sc.rights * 35 + sc.market * 20
            re == re_evaluation_score(sc.technology, sc.rights, sc.market)
        IN  normal < RE_EVAL_THRESHOLD * Unit
                => sc.overall = re /\ result["grade"] = calculate_grade(re)

\* C5: each category's final score is the fixed blend of its quantitative
\* and qualitative score (Technology 0.6/0.4, Rights 0.7/0.3, Market
\* 0.7/0.3, the qualitative score unclamped), in the agents and in the
\* evaluate_* functions of the pipeline alike.  Final scores are in
\* thousandths; the quantitative scores in the unit noted with each.
C5_BlendRatios ==
    /\ TechDone =>
         state["tech_score"] =
             state["tech_quantitative"].total * 60
             + Agent_qualitative_score(state["tech_qualitative"]) * 400
    /\ RightsDone =>
         state["rights_score"] =
             state["rights_quantitative"].total * 70
             + Agent_qualitative_score(state["rights_qualitative"]) * 300
    /\ MarketDone =>
         state["market_score"] =
             state["market_quantitative"].total * 70
             + Agent_qualitative_score(state["market_qualitative"]) * 300
    /\ "tech_result" \in DOMAIN result =>
         LET r == result["tech_result"]     \* quantitative in tenths
         IN  r.total_score = r.quantitative_score * 60 + r.qualitative_score * 400
    /\ "rights_result" \in DOMAIN result =>
         LET r == result["rights_result"]   \* quantitative in hundredths
         IN  r.total_score = r.quantitative_score * 7 + r.qualitative_score * 300
    /\ "market_result" \in DOMAIN result =>
         LET r == result["market_result"]   \* quantitative in points
         IN  r.total_score = r.quantitative_score * 700 + r.qualitative_score * 300

----
\* Raw values the curves are probed at

DrawingProbe == 0..(MaxDrawings + 1)

SeriesProbe == 0..(MaxClaims + 1)

IpcProbe == 0..(MaxIpc + 1)

ClaimsCountProbe == 0..(MaxClaimsCount + 1)

InventorProbe == 0..(MaxInventors + 1)

TitleProbe == 0..MaxTitle

\* average lengths, in tenths of a character
LengthProbe == { 10 * n : n \in 0..LengthProbeMax }

\* The six curves that never fall: a raw value above the one scored never
\* scores less than the stored component score
SixCurvesMonotone ==
    /\ TechDone =>
         LET m == state["tech_metrics"]
             q == state["tech_quantitative"]
         IN  /\ \A y \in DrawingProbe :
                   y >= m.X7_drawing_count => Tech_drawing_score(y) >= q.drawing_score
             /\ \A y \in SeriesProbe :
                   y >= m.X9_claim_series => Tech_series_score(y) >= q.series_score
    /\ RightsDone =>
         LET m == state["rights_metrics"]
             q == state["rights_quantitative"]
         IN  /\ \A y \in IpcProbe :
                   y >= m.X1_ipc_count => Rights_ipc_score(y) >= q.ipc_score
             /\ \A y \in ClaimsCountProbe :
                   y >= m.X4_total_claims
                       => Rights_claims_count_score(y) >= q.claims_count_score
             /\ \A y \in LengthProbe :
                   y >= m.X5_independent_avg_length
                       => Rights_length_score(y) >= q.claims_length_score
    /\ MarketDone =>
         \A y \in InventorProbe :
             y >= state["market_metrics"].X10_inventor_count
                 => Market_inventor_score(y) >= state["market_quantitative"].inventor_score

\* C6 as stated: all seven curves, the title-length curve included, are
\* monotonic non-decreasing.
C6_AllCurvesMonotone ==
    /\ SixCurvesMonotone
    /\ TechDone =>
         \A y \in TitleProbe :
             y >= state["tech_metrics"].X8_title_length
                 => Tech_title_score(y) >= state["tech_quantitative"].title_score

\* C6 amended: the drawing-count, claim-series, IPC-count, total-claims,
\* independent-average-length and inventor-count curves are monotonic
\* non-decreasing; the title-length curve is non-decreasing up to length
\* 80 only, and a title longer than 80 scores less than one of 20..80.
C6_CurvesMonotoneTitleUpTo80 ==
    /\ SixCurvesMonotone
    /\ TechDone =>
         LET x == state["tech_metrics"].X8_title_length
             sx == state["tech_quantitative"].title_score
         IN  /\ \A y \in TitleProbe :
                   y >= x /\ y <= 80 => Tech_title_score(y) >= sx
             /\ \A y \in TitleProbe :
                   20 <= x /\ x <= 80 /\ y > 80 => Tech_title_score(y) < sx

\* C6 witness: a title of 81 characters was scored 70, below the 100 of a
\* shorter title
C6_Witness ==
    /\ TechDone
    /\ state["tech_metrics"].X8_title_length = 81
    /\ state["tech_quantitative"].title_score = 70
    /\ Tech_title_score(80) = 100

\* C7: raising one of drawing count, IPC count, total claim count,
\* independent average length or inventor count, the other metrics held
\* fixed, lowers neither its component score nor the category total.
C7_SingleMetricMonotone ==
    /\ TechDone =>
         LET m == state["tech_metrics"]
             q == state["tech_quantitative"]
         IN  \A y \in DrawingProbe :
                 y >= m.X7_drawing_count =>
                     LET q2 == Tech_calculate_quantitative_score(
                                   [m EXCEPT !.X7_drawing_count = y])
                     IN  q2.drawing_score >= q.drawing_score /\ q2.total >= q.total
    /\ RightsDone =>
         LET m == state["rights_metrics"]
             q == state["rights_quantitative"]
         IN  /\ \A y \in IpcProbe :
                   y >= m.X1_ipc_count =>
                       LET q2 == Rights_calculate_quantitative_score(
                                     [m EXCEPT !.X1_ipc_count = y])
                       IN  q2.ipc_score >= q.ipc_score /\ q2.total >= q.total
             /\ \A y \in ClaimsCountProbe :
                   y >= m.X4_total_claims =>
                       LET q2 == Rights_calculate_quantitative_score(
                                     [m EXCEPT !.X4_total_claims = y])
                       IN  q2.claims_count_score >= q.claims_count_score
                           /\ q2.total >= q.total
             /\ \A y \in LengthProbe :
                   y >= m.X5_independent_avg_length =>
                       LET q2 == Rights_calculate_quantitative_score(
                                     [m EXCEPT !.X5_independent_avg_length = y])
                       IN  q2.claims_length_score >= q.claims_length_score
                           /\ q2.total >= q.total
    /\ MarketDone =>
         LET m == state["market_metrics"]
             q == state["market_quantitative"]
         IN  \A y \in InventorProbe :
                 y >= m.X10_inventor_count =>
                     LET q2 == Market_calculate_quantitative_score(
                                   [m EXCEPT !.X10_inventor_count = y],
                                   state["market_web_search"])
                     IN  q2.inventor_score >= q.inventor_score /\ q2.total >= q.total

\* C7 witness: a Rights evaluation of 4 IPC codes (score 60); one code
\* more reaches the next bucket
C7_Witness ==
    /\ RightsDone
    /\ state["rights_metrics"].X1_ipc_count = 4
    /\ state["rights_quantitative"].ipc_score = 60
    /\ Rights_calculate_quantitative_score(
           [state["rights_metrics"] EXCEPT !.X1_ipc_count = 5]).total
         > state["rights_quantitative"].total

C9_RightsTable ==
    RightsDone =>
        LET m == state["rights_metrics"]
            q == state["rights_quantitative"]
            i == m.X1_ipc_count
            c == m.X4_total_claims
            l == m.X5_independent_avg_length
            ind == m.X2_independent_claims
            dep == m.X3_dependent_claims
            sum == q.ipc_score * 25 + q.claims_count_score * 30
                   + q.claims_length_score * 25 + q.hierarchy_score * 20
        IN  /\ q.ipc_score = CASE i >= 10 -> 100
                               [] i \in 5..9 -> 75
                               [] i \in 2..4 -> 60
                               [] i = 1 -> 40
                               [] OTHER -> 0
            /\ q.claims_count_score = CASE c >= 30 -> 100
                                        [] c \in 20..29 -> 80
                                        [] c \in 10..19 -> 60
                                        [] c \in 5..9 -> 40
                                        [] OTHER -> 20
            /\ q.claims_length_score = CASE l >= 2000 -> 100
                                         [] l >= 1000 /\ l < 2000 -> 70
                                         [] l >= 500 /\ l < 1000 -> 40
                                         [] OTHER -> 20
            /\ q.hierarchy_score = CASE ind = 0 -> 0
                                     [] ind > 0 /\ dep \div ind >= 5 -> 100
                                     [] ind > 0 /\ dep \div ind \in 3..4 -> 75
                                     [] ind > 0 /\ dep \div ind \in 1..2 -> 50
                                     [] OTHER -> 30
            /\ sum - 5 <= 10 * q.total /\ 10 * q.total <= sum + 5
            /\ (10 * q.total - sum \in {-5, 5} => q.total % 2 = 0)

\* C9 witness: few claims score 20 on the claim-count axis, and a weighted
\* sum ending in 5 hundredths was rounded
C9_Witness ==
    /\ RightsDone
    /\ state["rights_metrics"].X4_total_claims \in 1..4
    /\ state["rights_quantitative"].claims_count_score = 20
    /\ state["rights_quantitative"].ipc_score = 75
    /\ state["rights_quantitative"].total % 2 = 0
    /\ LET q == state["rights_quantitative"]
       IN  10 * q.total - (q.ipc_score * 25 + q.claims_count_score * 30
                           + q.claims_length_score * 25 + q.hierarchy_score * 20)
               \in {-5, 5}

\* C10: the Market component scores and total equal the reference table:
\* inventors >=8 100, >=5 80, >=2 60, >=1 40, else 0; applicant Major 100,
\* Medium 70, Small 40, Unknown 20; tech field High 100, Medium 70, Low
\* 40, Unknown 20; total = inventor*0.30 + applicant*0.40 + techField*0.30
\* (in tenths).
C10_MarketTable ==
    MarketDone =>
        LET n == state["market_metrics"].X10_inventor_count
            w == state["market_web_search"]
            q == state["market_quantitative"]
            ApplicantTable == [Major |-> 100, Medium |-> 70, Small |-> 40, Unknown |-> 20]
            TechTable == [High |-> 100, Medium |-> 70, Low |-> 40, Unknown |-> 20]
        IN  /\ w.applicant_grade \in DOMAIN ApplicantTable
            /\ w.tech_grade \in DOMAIN TechTable
            /\ q.inventor_score = CASE n >= 8 -> 100
                                    [] n \in 5..7 -> 80
                                    [] n \in 2..4 -> 60
                                    [] n = 1 -> 40
                                    [] OTHER -> 0
            /\ q.applicant_score = ApplicantTable[w.applicant_grade]
            /\ q.tech_field_score = TechTable[w.tech_grade]
            /\ q.total = q.inventor_score * 3 + q.applicant_score * 4
                         + q.tech_field_score * 3

\* C10 witness: an unknown applicant in a low-growth field with 5 inventors
C10_Witness ==
    /\ MarketDone
    /\ state["market_web_search"] = [applicant_grade |-> "Unknown", tech_grade |-> "Low"]
    /\ state["market_metrics"].X10_inventor_count = 5
    /\ state["market_quantitative"].total = 440

----
\* C11: the overall score evaluate_patent reports is technology*0.45 +
\* rights*0.35 + market*0.20 of the three category final scores, and the
\* reported grade is calculate_grade of exactly that overall score.
C11_OverallIsWeightedSum ==
    PatentDone =>
        LET sc == result["scores"]
        IN  /\ sc.technology = result["tech_result"].total_score
            /\ sc.rights = result["rights_result"].total_score
            /\ sc.market = result["market_result"].total_score
            /\ sc.overall = sc.technology * 45 + sc.rights * 35 + sc.market * 20
            /\ result["grade"] = calculate_grade(sc.overall)

\* C11 witness: a document whose three categories differ and whose overall
\* score reaches a grade
C11_Witness ==
    /\ PatentDone
    /\ result["scores"].technology > result["scores"].market
    /\ result["scores"].overall >= 55 * Unit
    /\ result["grade"] # "Midal"

\* the record with nothing in it
EmptyRecord(info) ==
    /\ info["claims"] = <<>>
    /\ info["ipc_codes"] = <<>>
    /\ info["drawing_count"] = 0
    /\ PyLen(info["title"]) = 0
    /\ info["claims_count"] = 0

EmptyMarketRecord(info) ==
    /\ info["inventors"] = <<>>
    /\ info["applicant"] = ""
    /\ info["ipc_codes"] = <<>>

\* C13 as stated: for the empty record the Market quantitative total is 0
\* with an inventor count of 0, and 12.0 with the fallback count of 1.
C13_EmptyRecordMarketZero ==
    MarketDone /\ EmptyMarketRecord(patent_info) =>
        /\ state["market_quantitative"].total = 0
        /\ Market_calculate_quantitative_score(
               [state["market_metrics"] EXCEPT !.X10_inventor_count = 1],
               state["market_web_search"]).total = 120

\* C13 amended: for the empty record both tiers are Unknown and score 20
\* each, so the Market quantitative total is 14.0 (= 0.40*20 + 0.30*20)
\* with an inventor count of 0, and 26.0 (= 0.30*40 + 14.0) with an
\* inventor count of 1.
C13_EmptyRecordMarketUnknownTiers ==
    MarketDone /\ EmptyMarketRecord(patent_info) =>
        /\ state["market_metrics"].X10_inventor_count = 0
        /\ state["market_web_search"] =
               [applicant_grade |-> "Unknown", tech_grade |-> "Unknown"]
        /\ state["market_quantitative"].inventor_score = 0
        /\ state["market_quantitative"].total = 140
        /\ Market_calculate_quantitative_score(
               [state["market_metrics"] EXCEPT !.X10_inventor_count = 1],
               state["market_web_search"]).total = 260

\* C13 witness: the Market evaluation of the empty record
C13_Witness ==
    /\ MarketDone
    /\ patent_info = BlankRecord
    /\ state["market_quantitative"].applicant_score = 20
    /\ state["market_quantitative"].tech_field_score = 20
    /\ state["market_quantitative"].total = 140

\* C14: when the extractor supplies an empty inventor list the inventor
\* count used for scoring is 1, never 0, and the inventor component score
\* is 40 rather than 0, in the Market agent and in the metrics of the
\* pipeline alike.
C14_InventorFallback ==
    /\ MarketDone /\ Get(patent_info, "inventors", <<>>) = <<>> =>
         /\ state["market_metrics"].X10_inventor_count = 1
         /\ state["market_quantitative"].inventor_score = 40
    /\ task = "patent" /\ pc \notin {"start", "raised"}
         /\ Get(patent_info, "inventors", <<>>) = <<>> =>
         /\ patent_info["inventors_count"] = 1
         /\ patent_info["X10"] = 40

\* C15: a tier label outside the enumerated sets (applicant tier not
\* Major, Medium, Small or Unknown; tech-field tier not High, Medium, Low
\* or Unknown) makes the Market scorer fail: the call returns no score.
C15_UnknownTierFailsFast ==
    MarketScoreDone =>
        LET w == state["market_web_search"]
        IN  \/ w.applicant_grade \notin {"Major", "Medium", "Small", "Unknown"}
            \/ w.tech_grade \notin {"High", "Medium", "Low", "Unknown"}
            => "market_quantitative" \notin DOMAIN result

\* the record carries the extractor's failure defaults
FailureDefaults(info) ==
    /\ "title" \in DOMAIN info /\ IsNone(info["title"])
    /\ info["claims"] = <<>>

\* C16: metric computation and scoring never raise for a record whose
\* fields carry the extractor's failure defaults (title None, applicant
\* None, no claims, IPC codes or inventors); the absent title counts as
\* length 0 and scores 0.
C16_FailureDefaultsNeverRaise ==
    FailureDefaults(patent_info) =>
        /\ pc # "raised"
        /\ TechDone => /\ state["tech_metrics"].X8_title_length = 0
                       /\ state["tech_quantitative"].title_score = 0

\* C17: the record the extractor produced is read-only to the evaluation:
\* no step of metric computation or of a category evaluation changes the
\* value of one of its fields or adds a field to it.
C17_RecordReadOnly == [][patent_info' = patent_info]_vars

----
\* The local variables call d ends with when its document is evaluated
\* alone, given the search results and the assessor it met
AloneFrame(d) ==
    LET a == setup.agent
        m == Agent_calculate_quantitative_metrics(a, CallRecords[d])
        f0 == IF a = "market"
              THEN PutAll(EmptyDict,
                     [ quantitative_metrics |-> m,
                       web_search_result |-> frame[d]["web_search_result"] ])
              ELSE Put(EmptyDict, "quantitative_metrics", m)
        c == Agent_binary_checklist(a, f0)
        q == Agent_calculate_quantitative_score(a, f0)
        r == Agent_parse_response(LLM_invoke(setup.assessor, Agent_prompt(m, q, c)))
    IN  PutAll(f0,
          [ binary_checklist |-> c,
            quantitative_score |-> q,
            qualitative_result |-> r,
            final_score |-> Agent_final_score(a, q.total, Agent_qualitative_score(r)) ])

\* C18: two documents evaluated in parallel, their steps interleaved in
\* any order, each end with the category score, metrics and checklist
\* they get when evaluated alone: when a call has returned, the state it
\* returned holds the values of its own document.
C18_ParallelAsAlone ==
    task = "calls" =>
        \A d \in Docs :
            At(d) = "done" =>
                \A i \in 1..Len(StateKeys(setup.agent)) :
                    states[setup.state_of[d]][StateKeys(setup.agent)[i]]
                        = WrittenValue(AloneFrame(d), i)

\* C19: the binary checklist does not influence any numeric score: the
\* final score is the blend of the quantitative total and the qualitative
\* score whatever the checklist is, and it would be the same had the
\* checklist, with the metrics and the quantitative score unchanged, had
\* any other values.
C19_ChecklistNoInfluence ==
    task = "calls" =>
        \A d \in Docs :
            "final_score" \in DOMAIN frame[d] =>
                LET f == frame[d]
                    final(c2) ==
                        Agent_final_score(setup.agent, f["quantitative_score"].total,
                            Agent_qualitative_score(Agent_parse_response(
                                LLM_invoke(setup.assessor,
                                    Agent_prompt(f["quantitative_metrics"],
                                                 f["quantitative_score"], c2)))))
                IN  /\ f["final_score"] =
                           Agent_final_score(setup.agent, f["quantitative_score"].total,
                               Agent_qualitative_score(f["qualitative_result"]))
                    /\ \A c2 \in [DOMAIN f["binary_checklist"] -> BOOLEAN] :
                           final(c2) = f["final_score"]

\* C20: in every category evaluation the checklist is computed only after
\* that category's quantitative score and final score have been computed.
C20_ChecklistAfterScoring ==
    task = "calls" =>
        \A d \in Docs :
            "binary_checklist" \in DOMAIN frame[d] =>
                /\ "quantitative_score" \in DOMAIN frame[d]
                /\ "final_score" \in DOMAIN frame[d]

----
\* C21: when the assessor's response cannot be parsed, the qualitative
\* score entering the blend is the one fallback score 60, in every
\* category and in the agents and the pipeline alike, and the result
\* carries a flag recording that the fallback was used.
C21_FallbackSixtyFlagged ==
    /\ \A a \in Agents :
         LET k == a \o "_qualitative"
         IN  task = a /\ pc = "done" /\ state[k] = Agent_default_qualitative_result
                 => /\ Agent_qualitative_score(state[k]) = 60
                    /\ "fallback_used" \in DOMAIN state[k]
    /\ \A k \in {"tech_result", "rights_result", "market_result"} :
         k \in DOMAIN result /\ "key_strengths" \in DOMAIN result[k]
             => /\ result[k]["qualitative_score"] = 60
                /\ "fallback_used" \in DOMAIN result[k]

\* the orders a list can be given in
Reorderings(seq) ==
    { [i \in DOMAIN seq |-> seq[p[i]]] : p \in Permutations(DOMAIN seq) }

\* C22: the order of the IPC codes of a record is irrelevant: with the
\* codes in any other order the Market metrics are the same, and the web
\* search can end with the same tiers, the same tech-field score and the
\* same quantitative total.
C22_IpcOrderIrrelevant ==
    MarketDone =>
        \A codes \in Reorderings(patent_info["ipc_codes"]) :
            LET info2 == [patent_info EXCEPT !["ipc_codes"] = codes]
                m2 == Market_calculate_quantitative_metrics(info2)
            IN  /\ m2 = state["market_metrics"]
                /\ \E search_applicant \in SearchOutcomes, search_tech \in SearchOutcomes :
                     LET w2 == Market_web_search(info2, search_applicant, search_tech)
                     IN  /\ w2 = state["market_web_search"]
                         /\ Market_calculate_quantitative_score(m2, w2)
                                = state["market_quantitative"]

\* C23: the Rights checklist entry claims_length_balanced is true exactly
\* when the independent average length is greater than 0 and
\* 50 <= dependent average length <= independent average length
\* (lengths in tenths of a character); it is false whenever the
\* independent average length is 0.
C23_LengthBalanced ==
    RightsDone =>
        LET m == state["rights_metrics"]
            balanced == state["rights_binary"].claims_length_balanced
        IN  /\ balanced <=> /\ m.X5_independent_avg_length > 0
                            /\ 500 <= m.X6_dependent_avg_length
                            /\ m.X6_dependent_avg_length <= m.X5_independent_avg_length
            /\ (m.X5_independent_avg_length = 0 => ~balanced)

\* C23 witness: dependent claims averaging exactly 50 characters under a
\* longer independent claim were found balanced
C23_Witness ==
    /\ RightsDone
    /\ state["rights_metrics"].X6_dependent_avg_length = 500
    /\ state["rights_metrics"].X5_independent_avg_length > 500
    /\ state["rights_binary"].claims_length_balanced

\* C24: the Rights scorer forms the ratio dependent/independent only with
\* a non-zero independent count (a hierarchy score other than 0 comes
\* from the ratio branch); for the metrics of a non-empty claim list the
\* independent count is at least 1 and the branch "independent count is
\* 0" (hierarchy score 0) is not taken; it is taken for the empty list.
C24_HierarchyDenominator ==
    RightsDone =>
        LET claims == patent_info["claims"]
            m == state["rights_metrics"]
            q == state["rights_quantitative"]
        IN  /\ (q.hierarchy_score # 0 => m.X2_independent_claims > 0)
            /\ (claims # <<>> => /\ m.X2_independent_claims >= 1
                                 /\ q.hierarchy_score \in {30, 50, 75, 100})
            /\ (claims = <<>> => /\ m.X2_independent_claims = 0
                                 /\ q.hierarchy_score = 0)

\* C24 witness: two claims that both read as dependent; the first was
\* made the independent one, and the ratio 1/1 scored 50
C24_Witness ==
    /\ RightsDone
    /\ Len(patent_info["claims"]) = 2
    /\ AllDependent(patent_info["claims"])
    /\ state["rights_metrics"].X2_independent_claims = 1
    /\ state["rights_quantitative"].hierarchy_score = 50

\* the fields add_quantitative_metrics adds to the record
MetricKeys == {"X1", "X2", "X3", "X4", "X5", "X6", "X7", "X8", "X9", "X10"}

\* C25: in evaluate_patent data flows upward and in order: a category is
\* evaluated only on a record that carries the metrics X1..X10,
\* Technology before Rights before Market; a category's final score
\* exists only together with its qualitative score; the overall score
\* exists only when all three category final scores do and is computed
\* from them; the grade exists only when the overall score does.
C25_UpwardDataFlow ==
    task = "patent" =>
        LET has(k) == k \in DOMAIN result
            categories == {"tech_result", "rights_result", "market_result"}
        IN  /\ (pc \in {"metrics", "tech", "rights", "market", "overall", "done"}
                   => MetricKeys \subseteq DOMAIN patent_info)
            /\ (has("tech_result") => MetricKeys \subseteq DOMAIN patent_info)
            /\ (has("rights_result") => has("tech_result"))
            /\ (has("market_result") => has("rights_result"))
            /\ \A k \in categories :
                   has(k) /\ "total_score" \in DOMAIN result[k]
                       => "qualitative_score" \in DOMAIN result[k]
            /\ (has("overall_score") =>
                   /\ \A k \in categories : has(k) /\ "total_score" \in DOMAIN result[k]
                   /\ result["overall_score"] =
                          overall_score(result["tech_result"]["total_score"],
                                        result["rights_result"]["total_score"],
                                        result["market_result"]["total_score"]))
            /\ (has("grade") =>
                   has("overall_score")
                   /\ result["grade"] = calculate_grade(result["overall_score"]))
            /\ (pc = "done" <=> has("grade"))
            /\ (pc = "overall" <=> has("overall_score") /\ ~has("grade"))

\* C25 witness: the overall score of three evaluated categories exists
\* and the grade does not yet
C25_Witness ==
    /\ task = "patent" /\ pc = "overall"
    /\ "market_result" \in DOMAIN result
    /\ "overall_score" \in DOMAIN result
    /\ "grade" \notin DOMAIN result
    /\ result["overall_score"] >= 55 * Unit

\* C26: for every claim list the claim-series count of TechnologyAgent
\* (X9_claim_series) equals the independent-claim count of RightsAgent
\* (X2_independent_claims), in the fallback case and for the empty list
\* too.
C26_ClassifiersAgree ==
    /\ TechDone =>
         state["tech_metrics"].X9_claim_series
             = Rights_calculate_quantitative_metrics(patent_info).X2_independent_claims
    /\ RightsDone =>
         /\ state["rights_metrics"].X2_independent_claims
               = Tech_calculate_quantitative_metrics(patent_info).X9_claim_series
         /\ Tech_classify_independent_claims(patent_info["claims"])
               = Rights_classify_claims(patent_info["claims"])[1]

\* C26 witness: four claims that all read as dependent; both agents
\* count one independent claim
C26_Witness ==
    /\ RightsDone
    /\ Len(patent_info["claims"]) = 4
    /\ AllDependent(patent_info["claims"])
    /\ state["rights_metrics"].X2_independent_claims = 1
    /\ Tech_calculate_quantitative_metrics(patent_info).X9_claim_series = 1

\* C27: the quantitative category scores evaluate_patent blends (the
\* X1..X10 curves of add_quantitative_metrics combined in
\* evaluate_technology, evaluate_rights and evaluate_market) equal the
\* quantitative totals the Technology, Rights and Market agents compute
\* for the same record; for Market, the total under some outcome of the
\* web search.
C27_OneScoringVariant ==
    task = "patent" =>
        /\ "tech_result" \in DOMAIN result =>
             \* both in tenths
             result["tech_result"]["quantitative_score"] =
                 Tech_calculate_quantitative_score(
                     Tech_calculate_quantitative_metrics(patent_info)).total
        /\ "rights_result" \in DOMAIN result =>
             \* hundredths on the left, tenths on the right
             result["rights_result"]["quantitative_score"] =
                 10 * Rights_calculate_quantitative_score(
                          Rights_calculate_quantitative_metrics(patent_info)).total
        /\ "market_result" \in DOMAIN result =>
             \* points on the left, tenths on the right
             \E search_applicant \in SearchOutcomes, search_tech \in SearchOutcomes :
                 10 * result["market_result"]["quantitative_score"] =
                     Market_calculate_quantitative_score(
                         Market_calculate_quantitative_metrics(patent_info),
                         Market_web_search(patent_info, search_applicant,
                                           search_tech)).total

\* add_quantitative_metrics has returned: directly called, or in the
\* pipeline
MetricsAdded ==
    \/ task = "metrics" /\ pc = "done"
    \/ task = "patent" /\ pc \notin {"start", "raised"}

\* C28: in add_quantitative_metrics, for every accepted form of the claims
\* field (newline-separated string, list of strings, list of dicts),
\* independent_claims_count + dependent_claims_count = claims_count, and
\* independent_claims_count >= 1 whenever claims is non-empty.
C28_ClaimCountsAddUp ==
    MetricsAdded =>
        /\ patent_info["independent_claims_count"] + patent_info["dependent_claims_count"]
               = patent_info["claims_count"]
        /\ (patent_info["claims"] # <<>> => patent_info["independent_claims_count"] >= 1)

\* the place of a label in GRADE_THRESHOLDS counted from the lowest grade
GradeRank(label) ==
    Len(GRADE_THRESHOLDS) + 1
        - (CHOOSE i \in 1..Len(GRADE_THRESHOLDS) : GRADE_THRESHOLDS[i][1] = label)

\* scores (tenths of a point) around every threshold, and the ends of the
\* range
GradeProbe ==
    { 10 * GRADE_THRESHOLDS[i][2] + d : i \in 1..Len(GRADE_THRESHOLDS), d \in {-1, 0, 1} }
        \cup {-MaxNegGrade, MaxGradeScore}

\* C29: calculate_grade returns a label of the grade table for every
\* score, negative scores included; it returns the lowest label exactly
\* when the score is below RE_EVAL_THRESHOLD (55); and a higher score
\* never receives a lower grade than a lower score.
C29_GradeTotalAndConsistent ==
    /\ GradeDone =>
         /\ \E i \in 1..Len(GRADE_THRESHOLDS) : result["grade"] = GRADE_THRESHOLDS[i][1]
         /\ (result["grade"] = "Midal" <=> score < 10 * RE_EVAL_THRESHOLD)
         /\ \A y \in GradeProbe \cup {score + 1} :
                y >= score =>
                    GradeRank(calculate_grade(y * (Unit \div 10)))
                        >= GradeRank(result["grade"])
    /\ PatentDone =>
         (result["grade"] = "Midal"
              <=> result["scores"].overall < RE_EVAL_THRESHOLD * Unit)

\* C29 witness: a negative score was given the lowest label, and 54.9 too
C29_Witness ==
    /\ GradeDone
    /\ score < 0
    /\ result["grade"] = "Midal"
    /\ calculate_grade(549 * (Unit \div 10)) = "Midal"
    /\ calculate_grade(550 * (Unit \div 10)) = "C"

Min3(a, b, c) == Min(Min(a, b), c)

Max3(a, b, c) == -Min3(-a, -b, -c)

\* metrics and tiers whose component scores are all 100
FullTechMetrics ==
    [X7_drawing_count |-> 10, X8_title_length |-> 25, X9_claim_series |-> 3]

FullRightsMetrics ==
    [ X1_ipc_count |-> 10, X2_independent_claims |-> 1, X3_dependent_claims |-> 5,
      X4_total_claims |-> 30, X5_independent_avg_length |-> 2000,
      X6_dependent_avg_length |-> 1000 ]

FullMarketMetrics == [X10_inventor_count |-> 8, applicant |-> "Samsung Electronics", ipc_count |-> 1]

FullTiers == [applicant_grade |-> "Major", tech_grade |-> "High"]

FullXScores == [k \in MetricKeys |-> 100]

====
